---- MODULE Spec2Model ----
(***************************************************************************)
(* The Erc20 ledger of src/lib.rs as a state machine.                      *)
(*                                                                         *)
(* State: the three storage fields of the contract, plus what the last     *)
(* message did (its arguments, the storage it was entered with, the value  *)
(* it returned and the events it handed to emit_event) and, per (owner,    *)
(* spender), the value last approved and the value moved since.            *)
(***************************************************************************)
EXTENDS Integers, Sequences, FiniteSets

\* ---------------------------------------------------------------- bounds

\* Largest value of the unsigned type Balance (u128 in the source): amounts
\* are 0..MaxAmount and wrap modulo MaxAmount + 1.
MaxAmount == 2

\* Number of messages dispatched after construction, of any kind (Spec).
MaxCalls == 2

\* Number of messages dispatched after construction when all of them are
\* direct transfers (SpecTransfers).
MaxTransfers == 3

\* ----------------------------------------------------------------- types

AccountId == {"alice", "bob", "charlie"}

\* The caller of the constructor.  The contract uses account ids only as
\* mapping keys and event fields, so one deployer stands for any of them.
Creators == {"alice"}

Balance == 0..MaxAmount

Modulus == MaxAmount + 1

\* Option<T>: None is the empty sequence, Some(x) the one-element sequence.
None == <<>>

Some(x) == <<x>>

\* Option::unwrap_or_default for Option<Balance>.
unwrap_or_default(opt) == IF opt = None THEN 0 ELSE opt[1]

\* enum Error, with the Ok(()) of Result and the panic of an overflowing `+`.
OkResult == "Ok"

BalanceTooLow == "BalanceTooLow"

AllowancesTooLow == "AllowancesTooLow"

Panicked == "Panic"

\* event Transfer { from, to, value }
TransferEvent(from, to, value) ==
    [event |-> "Transfer", from |-> from, to |-> to, value |-> value]

\* event Approve { from, to, value }
ApproveEvent(from, to, value) ==
    [event |-> "Approve", from |-> from, to |-> to, value |-> value]

\* ----------------------------------------------------------------- state

VARIABLES
    total_supply,   \* Erc20.total_supply
    balances,       \* Erc20.balances: AccountId -> Option<Balance> (None: no entry)
    allowances,     \* Erc20.allowances: (owner, spender) -> Option<Balance>
    call,           \* the last message: [op, caller, from, to, value]
    old,            \* the storage the last message was entered with
    result,         \* what the last message returned
    emitted,        \* the events the last message passed to emit_event, in order
    ncalls,         \* messages dispatched since construction
    approved,       \* per (owner, spender): the value of the owner's last approve
    moved           \* per (owner, spender): the value the spender's successful
                    \* transfer_from calls have moved since that approve

vars == <<total_supply, balances, allowances, call, old, result, emitted, ncalls,
          approved, moved>>

Pairs == AccountId \X AccountId

\* Mapping::new() / Default::default(): no entry for any key.
EmptyBalances == [a \in AccountId |-> None]

EmptyAllowances == [p \in Pairs |-> None]

\* ------------------------------------------------------------- the getters

\* fn total_supply(&self)
TotalSupply == total_supply

\* fn balance_of(&self, who), on a given balances mapping
balance_in(bal, who) == unwrap_or_default(bal[who])

balance_of(who) == balance_in(balances, who)

\* self.allowances.get(&(owner, spender)).unwrap_or_default()
allowance_in(alw, owner, spender) == unwrap_or_default(alw[<<owner, spender>>])

allowance(owner, spender) == allowance_in(allowances, owner, spender)

\* ----------------------------------------------------------- construction

\* Mutant of NewBalances: the constructor forgets to credit its caller.
NewBalancesNoInsert(creator, supply) == EmptyBalances

\* fn new(total_supply): the storage and the event of the constructor.
NewBalances(creator, supply) == [EmptyBalances EXCEPT ![creator] = Some(supply)]

NewEmitted(creator, supply) == <<TransferEvent(None, Some(creator), supply)>>

\* Mutant of NewSupply: the field is left to Default::default().
NewSupplyDefault(supply) == 0

\* line 53: Self { total_supply, balances, ..Default::default() }
NewSupply(supply) == supply

New(creator, supply) ==
    /\ total_supply = NewSupply(supply)
    /\ balances = NewBalances(creator, supply)
    /\ allowances = EmptyAllowances
    /\ call = [op |-> "new", caller |-> creator, from |-> creator,
               to |-> creator, value |-> supply]
    /\ old = [total_supply |-> 0, balances |-> EmptyBalances,
              allowances |-> EmptyAllowances]
    /\ result = OkResult
    /\ emitted = NewEmitted(creator, supply)
    /\ ncalls = 0
    /\ approved = [p \in Pairs |-> 0]
    /\ moved = [p \in Pairs |-> 0]

Init == \E creator \in Creators, supply \in Balance : New(creator, supply)

\* -------------------------------------------------------- transfer_helper

\* Mutant of BalanceCheckFails: the comparison is not strict.
BalanceCheckInclusive(value, balance_from) == value >= balance_from

\* line 94: if value > balance_from
BalanceCheckFails(value, balance_from) == value > balance_from

\* line 98: self.balances.insert(from, &(balance_from - value))
DebitFrom(bal, from, balance_from, value) ==
    [bal EXCEPT ![from] = Some(balance_from - value)]

\* line 99: self.balances.insert(to, &(balance_to + value)), the sum in range
CreditTo(bal, to, balance_to, value) ==
    [bal EXCEPT ![to] = Some(balance_to + value)]

\* line 99 when balance_to + value exceeds the type: the sum wrapped
CreditToWrapped(bal, to, balance_to, value) ==
    [bal EXCEPT ![to] = Some((balance_to + value) % Modulus)]

\* Mutant of HelperEmitted: the event built as the constructor builds it.
HelperEmittedAsMint(from, to, value) == <<TransferEvent(None, Some(to), value)>>

\* lines 101-105
HelperEmitted(from, to, value) == <<TransferEvent(Some(from), Some(to), value)>>

\* fn transfer_helper(&mut self, from, to, value): the outcomes of the call on
\* the balances bal, each [balances, result, emitted].  Both balances are read
\* before either is written (lines 91-92).  An overflowing balance_to + value
\* either panics (overflow checks on: the insert of line 98 has been done, that
\* of line 99 has not) or wraps (overflow checks off).
transfer_helper(bal, from, to, value) ==
    LET balance_from == balance_in(bal, from)
        balance_to == balance_in(bal, to)
        debited == DebitFrom(bal, from, balance_from, value)
    IN  IF BalanceCheckFails(value, balance_from)
        THEN {[balances |-> bal, result |-> BalanceTooLow, emitted |-> <<>>]}
        ELSE IF balance_to + value > MaxAmount
        THEN {[balances |-> debited, result |-> Panicked, emitted |-> <<>>],
              [balances |-> CreditToWrapped(debited, to, balance_to, value),
               result |-> OkResult,
               emitted |-> HelperEmitted(from, to, value)]}
        ELSE {[balances |-> CreditTo(debited, to, balance_to, value),
               result |-> OkResult,
               emitted |-> HelperEmitted(from, to, value)]}

\* --------------------------------------------------------------- messages

\* A message is dispatched (no message follows a panic): the storage at entry
\* is recorded.
Dispatch(op, caller, from, to, value) ==
    /\ result # Panicked
    /\ ncalls' = ncalls + 1
    /\ call' = [op |-> op, caller |-> caller, from |-> from, to |-> to,
                value |-> value]
    /\ old' = [total_supply |-> total_supply, balances |-> balances,
               allowances |-> allowances]

\* fn transfer(&mut self, to, value), called by sender
transfer(sender, to, value) ==
    /\ Dispatch("transfer", sender, sender, to, value)
    /\ \E out \in transfer_helper(balances, sender, to, value) :
          /\ balances' = out.balances
          /\ result' = out.result
          /\ emitted' = out.emitted
    /\ UNCHANGED <<total_supply, allowances, approved, moved>>

\* Mutant of AllowanceCheckFails: the comparison the other way round.
AllowanceCheckReversed(allowed, value) == value < allowed

\* line 81: if allowances < value
AllowanceCheckFails(allowed, value) == allowed < value

\* Mutant of ConsumeAllowance: the key written is (sender, from).
ConsumeAllowanceSwappedKey(alw, from, sender, allowed, value) ==
    [alw EXCEPT ![<<sender, from>>] = Some(allowed - value)]

\* line 85: self.allowances.insert(&(from, sender), &(allowances - value))
ConsumeAllowance(alw, from, sender, allowed, value) ==
    [alw EXCEPT ![<<from, sender>>] = Some(allowed - value)]

\* fn transfer_from(&mut self, from, to, value), called by sender
transfer_from(sender, from, to, value) ==
    /\ Dispatch("transfer_from", sender, from, to, value)
    /\ LET allowed == allowance(from, sender)
       IN  IF AllowanceCheckFails(allowed, value)
           THEN /\ result' = AllowancesTooLow
                /\ emitted' = <<>>
                /\ UNCHANGED <<balances, allowances, moved>>
           ELSE /\ allowances' = ConsumeAllowance(allowances, from, sender,
                                                  allowed, value)
                /\ \E out \in transfer_helper(balances, from, to, value) :
                      /\ balances' = out.balances
                      /\ result' = out.result
                      /\ emitted' = out.emitted
                      /\ moved' = IF out.result = OkResult
                                  THEN [moved EXCEPT ![<<from, sender>>] = @ + value]
                                  ELSE moved
    /\ UNCHANGED <<total_supply, approved>>

\* Mutant of SetAllowance: the value is added to the allowance already there.
SetAllowanceAdditive(alw, sender, to, value) ==
    [alw EXCEPT ![<<sender, to>>] = Some(allowance_in(alw, sender, to) + value)]

\* Mutant of SetAllowance: the allowance is granted in both directions.
SetAllowanceBothWays(alw, sender, to, value) ==
    [alw EXCEPT ![<<sender, to>>] = Some(value), ![<<to, sender>>] = Some(value)]

\* line 113: self.allowances.insert(&(sender, to), &value)
SetAllowance(alw, sender, to, value) ==
    [alw EXCEPT ![<<sender, to>>] = Some(value)]

\* lines 115-119
ApproveEmitted(sender, to, value) == <<ApproveEvent(sender, to, value)>>

\* fn approve(&mut self, to, value), called by sender
approve(sender, to, value) ==
    /\ Dispatch("approve", sender, sender, to, value)
    /\ allowances' = SetAllowance(allowances, sender, to, value)
    /\ emitted' = ApproveEmitted(sender, to, value)
    /\ result' = OkResult
    /\ approved' = [approved EXCEPT ![<<sender, to>>] = value]
    /\ moved' = [moved EXCEPT ![<<sender, to>>] = 0]
    /\ UNCHANGED <<total_supply, balances>>

\* The dispatcher: any account may call any message with any arguments.
AnyTransfer ==
    /\ ncalls < MaxCalls
    /\ \E sender \in AccountId, to \in AccountId, value \in Balance :
          transfer(sender, to, value)

AnyTransferFrom ==
    /\ ncalls < MaxCalls
    /\ \E sender \in AccountId, from \in AccountId, to \in AccountId,
          value \in Balance :
          transfer_from(sender, from, to, value)

AnyApprove ==
    /\ ncalls < MaxCalls
    /\ \E sender \in AccountId, to \in AccountId, value \in Balance :
          approve(sender, to, value)

Next == AnyTransfer \/ AnyTransferFrom \/ AnyApprove

Spec == Init /\ [][Next]_vars

\* The runs in which every message is a direct transfer.
OnlyTransfers ==
    /\ ncalls < MaxTransfers
    /\ \E sender \in AccountId, to \in AccountId, value \in Balance :
          transfer(sender, to, value)

SpecTransfers == Init /\ [][OnlyTransfers]_vars

\* ================================================================ claims

\* The arguments of the last message and the storage it was entered with.
Caller == call.caller

From == call.from

To == call.to

Value == call.value

old_balance(who) == balance_in(old.balances, who)

old_allowance(owner, spender) == allowance_in(old.allowances, owner, spender)

RECURSIVE SumOver(_, _)
SumOver(bal, accounts) ==
    IF accounts = {} THEN 0
    ELSE LET a == CHOOSE x \in accounts : TRUE
         IN  balance_in(bal, a) + SumOver(bal, accounts \ {a})

SumBalances == SumOver(balances, AccountId)

\* Every balance but those of the accounts in `except` reads as at entry.
OtherBalancesKept(except) ==
    \A a \in AccountId \ except : balance_of(a) = old_balance(a)

\* Every allowance but those of the pairs in `except` reads as at entry.
OtherAllowancesKept(except) ==
    \A p \in Pairs \ except : allowance(p[1], p[2]) = old_allowance(p[1], p[2])

\* C1: in every state reachable from new(S) by transfer, approve and
\* transfer_from calls, the sum of all account balances equals total_supply.
C1_SupplyConservation == SumBalances = TotalSupply

\* C2: a transfer with to == caller and value <= balance_of(caller) succeeds,
\* leaves every balance as it was and emits one Transfer{Some(A), Some(A), v}.
C2_SelfTransferNoOp ==
    (call.op = "transfer" /\ To = Caller /\ Value <= old_balance(Caller))
    => /\ result = OkResult
       /\ OtherBalancesKept({})
       /\ emitted = <<TransferEvent(Some(Caller), Some(Caller), Value)>>

\* C3: a transfer_from whose allowance covers value but whose from balance
\* does not returns BalanceTooLow and leaves every allowance and every
\* balance as before the call.
C3_TransferFromAtomic ==
    (/\ call.op = "transfer_from"
     /\ old_allowance(From, Caller) >= Value
     /\ old_balance(From) < Value)
    => /\ result = BalanceTooLow
       /\ OtherAllowancesKept({})
       /\ OtherBalancesKept({})

\* C4: right after new(S) called by creator, total_supply() = S,
\* balance_of(creator) = S, every other balance is 0, every allowance is 0 and
\* the one event emitted is Transfer{None, Some(creator), S}.
C4_Construction ==
    (ncalls = 0)
    => /\ call.op = "new"
       /\ TotalSupply = Value
       /\ balance_of(Caller) = Value
       /\ \A a \in AccountId \ {Caller} : balance_of(a) = 0
       /\ \A p \in Pairs : allowance(p[1], p[2]) = 0
       /\ emitted = <<TransferEvent(None, Some(Caller), Value)>>

\* C4 witness: a ledger just constructed with a positive supply.
C4_Witness == ncalls = 0 /\ call.op = "new" /\ Value = MaxAmount /\ TotalSupply > 0

\* C5: a transfer from A to another account B of v <= balance_of(A) returns
\* Ok, takes exactly v from A, gives exactly v to B, leaves the other balances
\* alone and emits Transfer{Some(A), Some(B), v}.
C5_TransferMoves ==
    (call.op = "transfer" /\ To # Caller /\ Value <= old_balance(Caller))
    => /\ result = OkResult
       /\ balance_of(Caller) = old_balance(Caller) - Value
       /\ balance_of(To) = old_balance(To) + Value
       /\ OtherBalancesKept({Caller, To})
       /\ emitted = <<TransferEvent(Some(Caller), Some(To), Value)>>

\* C6: a transfer fails if and only if balance_of(caller) < value; the failure
\* is BalanceTooLow, and it changes no balance, no allowance and emits nothing.
C6_TransferFailsOnlyOnBalance ==
    (call.op = "transfer")
    => /\ (result # OkResult) <=> (old_balance(Caller) < Value)
       /\ (result # OkResult)
          => /\ result = BalanceTooLow
             /\ balances = old.balances
             /\ allowances = old.allowances
             /\ emitted = <<>>

\* C7: transfer_from(caller = B, from = A, to = C, v) returns Ok if and only
\* if allowances[(A, B)] >= v and balance_of(A) >= v; on success the allowance
\* drops by exactly v, A's balance drops by v, C's rises by v and one
\* Transfer{Some(A), Some(C), v} is emitted.
C7_TransferFromMoves ==
    (call.op = "transfer_from")
    => /\ (result = OkResult)
          <=> (old_allowance(From, Caller) >= Value /\ old_balance(From) >= Value)
       /\ (result = OkResult)
          => /\ allowance(From, Caller) = old_allowance(From, Caller) - Value
             /\ balance_of(From) = old_balance(From) - Value
             /\ balance_of(To) = old_balance(To) + Value
             /\ emitted = <<TransferEvent(Some(From), Some(To), Value)>>

\* C8: whenever allowances[(from, caller)] < value, transfer_from returns
\* AllowancesTooLow, whether or not from's balance covers value, and leaves
\* the allowances, the balances and the event log as they were.
C8_AllowanceCheckFirst ==
    (call.op = "transfer_from" /\ old_allowance(From, Caller) < Value)
    => /\ result = AllowancesTooLow
       /\ allowances = old.allowances
       /\ balances = old.balances
       /\ emitted = <<>>

\* C8 witness: a positive allowance below the value asked, the owner's balance
\* covering the value.
C8_Witness ==
    /\ call.op = "transfer_from"
    /\ old_allowance(From, Caller) > 0
    /\ old_allowance(From, Caller) < Value
    /\ old_balance(From) >= Value
    /\ result = AllowancesTooLow

\* C9: approve(spender, v) by A always returns Ok, leaves allowances[(A,
\* spender)] = v whatever it was before (v2 after approving v1 then v2, not
\* v1 + v2) and emits one Approve{A, spender, v}.
C9_ApproveOverwrites ==
    (call.op = "approve")
    => /\ result = OkResult
       /\ allowance(Caller, To) = Value
       /\ emitted = <<ApproveEvent(Caller, To, Value)>>

\* C9 witness: an approve over an earlier positive allowance, with a positive
\* value that exceeds the owner's balance.
C9_Witness ==
    /\ call.op = "approve"
    /\ old_allowance(Caller, To) > 0
    /\ Value > 0
    /\ Value > balance_of(Caller)
    /\ allowance(Caller, To) = Value

\* C10: total_supply() returns the S given to new in every reachable state:
\* no transfer, approve or transfer_from call changes it.
C10_TotalSupplyConstant ==
    /\ TotalSupply = Value
    /\ [][TotalSupply' = TotalSupply]_vars

\* C10 witness: a positive supply after two messages, the second of which
\* moved a positive value.
C10_Witness ==
    /\ ncalls = 2
    /\ TotalSupply > 0
    /\ call.op \in {"transfer", "transfer_from"}
    /\ Value > 0
    /\ result = OkResult

\* The last message moved value through transfer_helper.
IsTransferCall == call.op \in {"transfer", "transfer_from"}

\* C11: amounts never wrap: a transfer or transfer_from whose recipient's
\* balance plus value exceeds the largest Balance fails instead of storing
\* the sum modulo 2^w, and every stored balance and allowance stays within
\* 0..MaxAmount (no subtraction goes below 0).
C11_NoWraparound ==
    /\ (/\ IsTransferCall
        /\ old_balance(From) >= Value
        /\ call.op = "transfer_from" => old_allowance(From, Caller) >= Value
        /\ old_balance(To) + Value > MaxAmount)
       => result # OkResult
    /\ \A a \in AccountId : balance_of(a) \in Balance
    /\ \A p \in Pairs : allowance(p[1], p[2]) \in Balance

\* C12: for every owner A and spender B, the value moved out of A by B's
\* successful transfer_from calls since A's last approve(B, v) (v = 0 if A
\* never approved B) is at most v, and allowances[(A, B)] is v less that
\* value.
C12_AllowanceNeverExceeded ==
    \A p \in Pairs :
        /\ moved[p] <= approved[p]
        /\ allowance(p[1], p[2]) = approved[p] - moved[p]

\* C13: an account's balance decreases in a step only if the step is a
\* successful transfer called by that account, or a successful transfer_from
\* out of that account whose caller's allowance covered the value; the
\* decrease equals the value of the call.
C13_NoUnauthorizedSpend ==
    \A a \in AccountId :
        (balance_of(a) < old_balance(a))
        => /\ result = OkResult
           /\ \/ call.op = "transfer" /\ Caller = a
              \/ /\ call.op = "transfer_from"
                 /\ From = a
                 /\ old_allowance(a, Caller) >= Value
           /\ old_balance(a) - balance_of(a) = Value

\* C14: in every reachable state no account holds more than the total
\* supply, so balance_to + value in transfer_helper never exceeds it.
C14_BalanceWithinSupply ==
    /\ \A a \in AccountId : balance_of(a) <= TotalSupply
    /\ (IsTransferCall /\ result # BalanceTooLow /\ result # AllowancesTooLow)
       => old_balance(To) + Value <= TotalSupply

\* The one event a successful call of the last message's kind emits.
ExpectedEvent ==
    IF call.op = "approve"
    THEN ApproveEvent(Caller, To, Value)
    ELSE TransferEvent(Some(From), Some(To), Value)

\* C15: every successful transfer, transfer_from or approve emits exactly
\* one event (Transfer{Some(from), Some(to), value} or Approve), every failed
\* call emits none, also a transfer_from that passes the allowance check and
\* fails the balance check, and the only Transfer with from = None is the one
\* the constructor emits.
C15_EventsTrackSuccess ==
    /\ (ncalls = 0) => emitted = <<TransferEvent(None, Some(Caller), Value)>>
    /\ (ncalls > 0 /\ result = OkResult) => emitted = <<ExpectedEvent>>
    /\ (ncalls > 0 /\ result # OkResult) => emitted = <<>>
    /\ (ncalls > 0)
       => \A i \in 1..Len(emitted) :
             emitted[i].event = "Transfer" => emitted[i].from # None

\* C15 witness: a transfer_from of a positive value that passed the allowance
\* check, failed the balance check and emitted nothing.
C15_Witness ==
    /\ call.op = "transfer_from"
    /\ Value > 0
    /\ old_allowance(From, Caller) >= Value
    /\ result = BalanceTooLow
    /\ emitted = <<>>

\* C16: approve(spender = B, v) called by A changes only allowances[(A, B)]:
\* every balance, total_supply, the reverse entry allowances[(B, A)] and
\* every other allowance entry are as before the call.
C16_ApproveFrame ==
    (call.op = "approve")
    => /\ balances = old.balances
       /\ TotalSupply = old.total_supply
       /\ \A p \in Pairs \ {<<Caller, To>>} : allowances[p] = old.allowances[p]

\* C16 witness: an approve that changes the caller's entry for a spender
\* whose own allowance over the caller is positive and differs from the value.
C16_Witness ==
    /\ call.op = "approve"
    /\ Caller # To
    /\ old_allowance(To, Caller) > 0
    /\ old_allowance(To, Caller) # Value
    /\ allowance(To, Caller) = old_allowance(To, Caller)
    /\ allowance(Caller, To) # old_allowance(Caller, To)

\* C17: transfer changes no allowance entry; transfer_from(from = A, to = C,
\* v) called by B changes no allowance entry other than allowances[(A, B)]
\* and no balance other than those of A and C.
C17_TransferFrame ==
    /\ (call.op = "transfer") => allowances = old.allowances
    /\ (call.op = "transfer_from")
       => /\ \A p \in Pairs \ {<<From, Caller>>} :
                allowances[p] = old.allowances[p]
          /\ \A a \in AccountId \ {From, To} : balances[a] = old.balances[a]

\* C17 witness: a successful transfer_from of a positive value among three
\* different accounts, which lowered the allowance of the caller.
C17_Witness ==
    /\ call.op = "transfer_from"
    /\ Cardinality({Caller, From, To}) = 3
    /\ Value > 0
    /\ result = OkResult
    /\ allowance(From, Caller) < old_allowance(From, Caller)
    /\ balance_of(To) > old_balance(To)

\* C18: a transfer or transfer_from of value 0 returns Ok for any caller,
\* with no balance and no allowance at all, leaves every balance and the
\* numeric value of every allowance as it was and emits a Transfer of value 0.
C18_ZeroValueSucceeds ==
    (IsTransferCall /\ Value = 0)
    => /\ result = OkResult
       /\ OtherBalancesKept({})
       /\ OtherAllowancesKept({})
       /\ emitted = <<TransferEvent(Some(From), Some(To), 0)>>

\* C18 witness: a transfer_from of 0 out of an account without a balance
\* entry, by a caller without an allowance entry; the call succeeded and left
\* entries holding 0.
C18_Witness ==
    /\ call.op = "transfer_from"
    /\ Value = 0
    /\ old.balances[From] = None
    /\ old.allowances[<<From, Caller>>] = None
    /\ result = OkResult
    /\ allowances[<<From, Caller>>] = Some(0)
    /\ balances[From] = Some(0)

\* First half of C19: a transfer_from of v > 0 out of the caller's own
\* account with allowances[(A, A)] < v fails with AllowancesTooLow, whatever
\* the caller's balance.
OwnerNeedsAllowance ==
    (/\ call.op = "transfer_from"
     /\ Caller = From
     /\ Value > 0
     /\ old_allowance(From, From) < Value)
    => result = AllowancesTooLow

\* Second half of C19: the same movement through transfer, by a caller whose
\* balance covers v and who has not approved itself, succeeds.
OwnerTransfersWithoutAllowance ==
    (/\ call.op = "transfer"
     /\ Value > 0
     /\ Value <= old_balance(Caller)
     /\ old_allowance(Caller, Caller) < Value)
    => result = OkResult

\* C19: an owner has no implicit allowance over its own balance:
\* transfer_from with caller == from and v > 0 fails with AllowancesTooLow
\* unless allowances[(A, A)] >= v, even when balance_of(A) >= v, while the
\* same movement through transfer succeeds without any allowance.
C19_NoImplicitSelfAllowance ==
    OwnerNeedsAllowance /\ OwnerTransfersWithoutAllowance

====
